---- MODULE Spec2Model ----
(***************************************************************************)
(* Band recommender (spotify_recommendations.py): the listener's taste     *)
(* profile is built from the top tracks, every candidate band is resolved, *)
(* fetched and scored in one sequential loop, and the scored results are   *)
(* ranked and saved.                                                       *)
(*                                                                         *)
(* Python floats are modelled as exact rationals <<numerator, denominator>>*)
(* in lowest terms with a positive denominator; dicts are functions whose  *)
(* DOMAIN is the set of keys, so a missing key is a key outside DOMAIN.    *)
(***************************************************************************)
EXTENDS Integers, Sequences, FiniteSets, TLC

VARIABLES
    listener_history,  \* what the service holds as the account's top tracks
    pc,                \* position of the script
    error,             \* "" while running; else the exit message / exception
    top_tracks,        \* line 51
    top_artists_ids,   \* line 56
    top_artists_info,  \* line 57
    user_genres,       \* line 67: dict genre -> weight
    user_popularity,   \* line 68
    candidates,        \* line 83
    band_idx,          \* position of the for loop of line 110 (1-based)
    artist_id,         \* line 111
    results,           \* line 90
    output_file,       \* [written |-> BOOLEAN, content |-> the JSON array]
    trace,             \* history: catalog calls and sleeps, in order
    outcomes,          \* history: what happened to each visited candidate
    collected,         \* history: results as they were before the sort
    run_no,            \* history: 1 in the first run, 2 in the repeated run
    first_profile,     \* history: the profile the first run built
    set1, set2, ret    \* arguments and return value of a direct call of
                       \* jaccard_similarity

vars == <<listener_history, pc, error, top_tracks, top_artists_ids,
          top_artists_info, user_genres, user_popularity, candidates,
          band_idx, artist_id, results, output_file, trace, outcomes,
          collected, run_no, first_profile, set1, set2, ret>>

-----------------------------------------------------------------------------
(* Bounds of the model *)

MaxTracks == 2

MaxLines == 3

MaxGenres == 4

(* Constants of the program *)

ARTIST_CAP == 20

TOP_K == 10

POP_SCALE == 100

-----------------------------------------------------------------------------
(* Values *)

None == "None"

NO_TOP_TRACKS == "No top tracks found. Add some music to Spotify first."

NO_BANDS == "No bands could be analyzed. Check your input file."

USAGE == "Usage: python spotify_recommendations.py <bands.txt>"

TRANSPORT_ERROR == "SpotifyException"

Get(d, k, default) == IF k \in DOMAIN d THEN d[k] ELSE default

Min(a, b) == IF a <= b THEN a ELSE b

Abs(n) == IF n < 0 THEN -n ELSE n

RECURSIVE GCD(_, _)
GCD(a, b) == IF b = 0 THEN (IF a = 0 THEN 1 ELSE a) ELSE GCD(b, a % b)

Frac(n, d) == LET g == GCD(Abs(n), d) IN <<n \div g, d \div g>>

FracAdd(a, b) == Frac(a[1] * b[2] + b[1] * a[2], a[2] * b[2])

FracSub(a, b) == Frac(a[1] * b[2] - b[1] * a[2], a[2] * b[2])

FracMul(a, b) == Frac(a[1] * b[1], a[2] * b[2])

FracAbs(a) == <<Abs(a[1]), a[2]>>

FracLE(a, b) == a[1] * b[2] <= b[1] * a[2]

RECURSIVE SumSeq(_)
SumSeq(s) == IF s = <<>> THEN 0 ELSE s[1] + SumSeq(Tail(s))

RECURSIVE Flatten(_)
Flatten(ss) == IF ss = <<>> THEN <<>> ELSE ss[1] \o Flatten(Tail(ss))

Range(s) == {s[k] : k \in DOMAIN s}

Front(s) == SubSeq(s, 1, Len(s) - 1)

SeqsUpTo(S, n) == UNION {[1..k -> S] : k \in 0..n}

-----------------------------------------------------------------------------
(* The catalog service: what sp.artist(id) answers when it answers *)

WideGenres == <<"g1", "g2", "g3", "g4", "g5", "g6", "g7", "g8", "g9">>

Catalog ==
    [id \in {"a1", "a2", "a4", "w1"} |->
        CASE id = "a1" -> [id |-> id, genres |-> <<"rock", "pop">>, popularity |-> 60]
          [] id = "a2" -> [id |-> id, genres |-> <<"rock", "jazz">>, popularity |-> 60]
          [] id = "a4" -> [id |-> id]
          [] id = "w1" -> [id |-> id, genres |-> WideGenres \o <<"rock">>, popularity |-> 40]]

(* first artists of the tracks the listener may have *)
TrackArtists == {"a1", "w1", "a4"}

Track(id) == [artists |-> <<[id |-> id]>>]

TrackSeqs == {[k \in DOMAIN s |-> Track(s[k])] : s \in SeqsUpTo(TrackArtists, MaxTracks)}

(* what sp.search answers: an exception, or a page of at most one artist *)
Raise == [raise |-> TRUE]

SearchResponses ==
    {Raise, [artists |-> [items |-> <<>>]], [tracks |-> <<>>]}
    \cup {[artists |-> [items |-> <<[id |-> id]>>]] : id \in {"a2", "a4"}}

(* lines of the candidate file: characters, the newline included *)
LineChoices == {<<"x", "\n">>, <<" ", "y", " ", "\n">>, <<" ", "\n">>}

FileContents == SeqsUpTo(LineChoices, MaxLines)

-----------------------------------------------------------------------------
(* Pure parts of the script *)

Whitespace == {" ", "\n"}

RECURSIVE lstrip(_)
lstrip(s) == IF s # <<>> /\ s[1] \in Whitespace THEN lstrip(Tail(s)) ELSE s

RECURSIVE rstrip(_)
rstrip(s) == IF s # <<>> /\ s[Len(s)] \in Whitespace THEN rstrip(Front(s)) ELSE s

strip(s) == rstrip(lstrip(s))

(* line 83: [line.strip() for line in f if line.strip()] *)
RECURSIVE read_candidates(_)
read_candidates(f) ==
    IF f = <<>> THEN <<>>
    ELSE IF strip(f[1]) # <<>> THEN <<strip(f[1])>> \o read_candidates(Tail(f))
         ELSE read_candidates(Tail(f))

(* every order in which iterating a set of strings may yield its members:
   str hashes are salted per process, so list(set(...)) has no fixed order *)
Orderings(S) ==
    {s \in [1..Cardinality(S) -> S] : \A a, b \in DOMAIN s : s[a] = s[b] => a = b}

(* list.sort(reverse=True) and heapq.nlargest are stable: records with equal
   keys keep their original order *)
InsertDesc(s, x) ==
    LET k == Cardinality({j \in DOMAIN s : FracLE(x.key, s[j].key)})
    IN  SubSeq(s, 1, k) \o <<x>> \o SubSeq(s, k + 1, Len(s))

RECURSIVE StableSortDesc(_)
StableSortDesc(s) ==
    IF s = <<>> THEN <<>> ELSE InsertDesc(StableSortDesc(Front(s)), s[Len(s)])

Reverse(s) == [k \in DOMAIN s |-> s[Len(s) + 1 - k]]

InsertAsc(s, x) ==
    LET k == Cardinality({j \in DOMAIN s : FracLE(s[j].key, x.key)})
    IN  SubSeq(s, 1, k) \o <<x>> \o SubSeq(s, k + 1, Len(s))

RECURSIVE StableSortAsc(_)
StableSortAsc(s) ==
    IF s = <<>> THEN <<>> ELSE InsertAsc(StableSortAsc(Front(s)), s[Len(s)])

(* a sort written as sorted(...)[::-1]: descending, ties reversed *)
results_sort_reversed(rs) ==
    LET keyed == [k \in DOMAIN rs |-> [key |-> rs[k].similarity, item |-> rs[k]]]
        sorted == Reverse(StableSortAsc(keyed))
    IN  [k \in DOMAIN sorted |-> sorted[k].item]

(* line 151: results.sort(key=lambda x: x["similarity"], reverse=True) *)
results_sort(rs) ==
    LET keyed == [k \in DOMAIN rs |-> [key |-> rs[k].similarity, item |-> rs[k]]]
        sorted == StableSortDesc(keyed)
    IN  [k \in DOMAIN sorted |-> sorted[k].item]

(* Counter(all_genres): keys in order of first insertion, with their counts *)
RECURSIVE Dedup(_)
Dedup(s) ==
    IF s = <<>> THEN <<>>
    ELSE LET d == Dedup(Front(s))
         IN  IF s[Len(s)] \in Range(d) THEN d ELSE Append(d, s[Len(s)])

Counter(s) ==
    LET keys == Dedup(s)
    IN  [k \in DOMAIN keys |->
            [item |-> keys[k],
             count |-> Cardinality({j \in DOMAIN s : s[j] = keys[k]})]]

most_common(counter, n) ==
    LET keyed == [k \in DOMAIN counter |->
                    [key |-> <<counter[k].count, 1>>, item |-> counter[k]]]
        sorted == StableSortDesc(keyed)
    IN  [k \in 1..Min(n, Len(sorted)) |-> sorted[k].item]

(* lines 60-67 *)
build_user_genres(infos) ==
    LET all_genres == Flatten([k \in DOMAIN infos |-> Get(infos[k], "genres", <<>>)])
        genre_counts == Counter(all_genres)
        total_genres == SumSeq([k \in DOMAIN genre_counts |-> genre_counts[k].count])
        top == most_common(genre_counts, TOP_K)
    IN  [g \in {top[k].item : k \in DOMAIN top} |->
            Frac(top[CHOOSE k \in DOMAIN top : top[k].item = g].count, total_genres)]

(* line 68: np.mean([artist["popularity"] for artist in top_artists_info]) *)
mean_popularity(infos) ==
    Frac(SumSeq([k \in DOMAIN infos |-> infos[k].popularity]), Len(infos))

(* lines 92-99 *)
get_artist_id(res) ==
    IF res = Raise THEN None
    ELSE LET items == Get(Get(res, "artists", <<>>), "items", <<>>)
         IN  IF items # <<>> THEN items[1].id ELSE None

(* the overlap divided by the size of the first set, not of the union *)
jaccard_similarity_overlap(s1, s2) ==
    IF s1 = {} \/ s2 = {} THEN <<0, 1>>
    ELSE Frac(Cardinality(s1 \cap s2), Cardinality(s1))

(* lines 101-107 *)
jaccard_similarity(s1, s2) ==
    IF s1 = {} \/ s2 = {} THEN <<0, 1>>
    ELSE LET intersection == Cardinality(s1 \cap s2)
             union == Cardinality(s1 \cup s2)
         IN  IF union > 0 THEN Frac(intersection, union) ELSE <<0, 1>>

(* the two weights of line 130 exchanged *)
score_band_swapped(band, artist_info, ug, up) ==
    LET genre_sim == jaccard_similarity(Range(Get(artist_info, "genres", <<>>)), DOMAIN ug)
        artist_popularity == Get(artist_info, "popularity", 0)
        pop_diff == FracMul(FracAbs(FracSub(<<artist_popularity, 1>>, up)), <<1, POP_SCALE>>)
        pop_sim == FracSub(<<1, 1>>, pop_diff)
    IN  [name |-> band,
         similarity |-> FracAdd(FracMul(genre_sim, <<3, 10>>), FracMul(pop_sim, <<7, 10>>)),
         genres |-> Get(artist_info, "genres", <<>>),
         popularity |-> artist_popularity]

(* the genre similarity taken as the summed weight of the shared genres *)
score_band_weighted(band, artist_info, ug, up) ==
    LET shared == Range(Get(artist_info, "genres", <<>>)) \cap DOMAIN ug
        order == CHOOSE o \in Orderings(shared) : TRUE
        RECURSIVE Total(_)
        Total(k) == IF k = 0 THEN <<0, 1>> ELSE FracAdd(Total(k - 1), ug[order[k]])
        genre_sim == Total(Len(order))
        artist_popularity == Get(artist_info, "popularity", 0)
        pop_diff == FracMul(FracAbs(FracSub(<<artist_popularity, 1>>, up)), <<1, POP_SCALE>>)
        pop_sim == FracSub(<<1, 1>>, pop_diff)
    IN  [name |-> band,
         similarity |-> FracAdd(FracMul(genre_sim, <<7, 10>>), FracMul(pop_sim, <<3, 10>>)),
         genres |-> Get(artist_info, "genres", <<>>),
         popularity |-> artist_popularity]

(* lines 119-137: the entry appended for a band whose artist was fetched *)
score_band(band, artist_info, ug, up) ==
    LET artist_genres == Range(Get(artist_info, "genres", <<>>))
        user_genre_set == DOMAIN ug
        genre_sim == jaccard_similarity(artist_genres, user_genre_set)
        artist_popularity == Get(artist_info, "popularity", 0)
        pop_diff == FracMul(FracAbs(FracSub(<<artist_popularity, 1>>, up)), <<1, POP_SCALE>>)
        pop_sim == FracSub(<<1, 1>>, pop_diff)
        similarity == FracAdd(FracMul(genre_sim, <<7, 10>>), FracMul(pop_sim, <<3, 10>>))
    IN  [name |-> band,
         similarity |-> similarity,
         genres |-> Get(artist_info, "genres", <<>>),
         popularity |-> artist_popularity]

-----------------------------------------------------------------------------
(* The script *)

NotWritten == [written |-> FALSE, content |-> <<>>]

NoProfile == [artists |-> <<>>, genres |-> {}, popularity |-> <<0, 1>>]

Call(op, band) == [op |-> op, band |-> band]

Init ==
    /\ listener_history \in TrackSeqs
    /\ pc = "top_tracks"
    /\ error = ""
    /\ top_tracks = <<>>
    /\ top_artists_ids = <<>>
    /\ top_artists_info = <<>>
    /\ user_genres = <<>>
    /\ user_popularity = <<0, 1>>
    /\ candidates = <<>>
    /\ band_idx = 1
    /\ artist_id = None
    /\ results = <<>>
    /\ output_file = NotWritten
    /\ trace = <<>>
    /\ outcomes = <<>>
    /\ collected = <<>>
    /\ run_no = 1
    /\ first_profile = NoProfile
    /\ set1 = {}
    /\ set2 = {}
    /\ ret = <<0, 1>>

(* no check of the empty answer: the script goes on to the artists *)
FetchTopTracks_unchecked ==
    /\ pc = "top_tracks"
    /\ trace' = Append(trace, Call("top_tracks", 0))
    /\ \/ /\ pc' = "raised"
          /\ error' = TRANSPORT_ERROR
          /\ UNCHANGED top_tracks
       \/ /\ top_tracks' = listener_history
          /\ pc' = "top_artists_ids"
          /\ UNCHANGED error
    /\ UNCHANGED <<listener_history, top_artists_ids, top_artists_info, user_genres,
                   user_popularity, candidates, band_idx, artist_id, results,
                   output_file, outcomes, collected, run_no, first_profile,
                   set1, set2, ret>>

(* lines 51-53 *)
FetchTopTracks ==
    /\ pc = "top_tracks"
    /\ trace' = Append(trace, Call("top_tracks", 0))
    /\ \/ /\ pc' = "raised"
          /\ error' = TRANSPORT_ERROR
          /\ UNCHANGED top_tracks
       \/ /\ top_tracks' = listener_history
          /\ IF listener_history = <<>>
             THEN pc' = "exit" /\ error' = NO_TOP_TRACKS
             ELSE pc' = "top_artists_ids" /\ UNCHANGED error
    /\ UNCHANGED <<listener_history, top_artists_ids, top_artists_info, user_genres,
                   user_popularity, candidates, band_idx, artist_id, results,
                   output_file, outcomes, collected, run_no, first_profile,
                   set1, set2, ret>>

(* line 56: list(set([t["artists"][0]["id"] for t in top_tracks])) *)
CollectTopArtists ==
    /\ pc = "top_artists_ids"
    /\ \E order \in Orderings({top_tracks[k].artists[1].id : k \in DOMAIN top_tracks}) :
          top_artists_ids' = order
    /\ pc' = "top_artists_info"
    /\ UNCHANGED <<listener_history, error, top_tracks, top_artists_info, user_genres,
                   user_popularity, candidates, band_idx, artist_id, results,
                   output_file, trace, outcomes, collected, run_no, first_profile,
                   set1, set2, ret>>

(* line 57: one sp.artist call for each of top_artists_ids[:20] *)
FetchTopArtist ==
    /\ pc = "top_artists_info"
    /\ Len(top_artists_info) < Min(Len(top_artists_ids), ARTIST_CAP)
    /\ trace' = Append(trace, Call("artist", 0))
    /\ \/ /\ pc' = "raised"
          /\ error' = TRANSPORT_ERROR
          /\ UNCHANGED top_artists_info
       \/ /\ top_artists_info' =
                Append(top_artists_info, Catalog[top_artists_ids[Len(top_artists_info) + 1]])
          /\ UNCHANGED <<pc, error>>
    /\ UNCHANGED <<listener_history, top_tracks, top_artists_ids, user_genres,
                   user_popularity, candidates, band_idx, artist_id, results,
                   output_file, outcomes, collected, run_no, first_profile,
                   set1, set2, ret>>

(* lines 60-68 *)
BuildProfile ==
    /\ pc = "top_artists_info"
    /\ Len(top_artists_info) = Min(Len(top_artists_ids), ARTIST_CAP)
    /\ IF \E k \in DOMAIN top_artists_info : "popularity" \notin DOMAIN top_artists_info[k]
       THEN /\ user_genres' = build_user_genres(top_artists_info)
            /\ pc' = "raised"
            /\ error' = "KeyError"
            /\ UNCHANGED user_popularity
       ELSE /\ user_genres' = build_user_genres(top_artists_info)
            /\ user_popularity' = mean_popularity(top_artists_info)
            /\ pc' = "load"
            /\ UNCHANGED error
    /\ UNCHANGED <<listener_history, top_tracks, top_artists_ids, top_artists_info,
                   candidates, band_idx, artist_id, results, output_file, trace,
                   outcomes, collected, run_no, first_profile, set1, set2, ret>>

(* lines 78-85 *)
LoadCandidates ==
    /\ pc = "load"
    /\ \/ /\ pc' = "exit"
          /\ error' = USAGE
          /\ UNCHANGED candidates
       \/ \E f \in FileContents :
             /\ candidates' = read_candidates(f)
             /\ pc' = "loop"
             /\ UNCHANGED error
    /\ UNCHANGED <<listener_history, top_tracks, top_artists_ids, top_artists_info,
                   user_genres, user_popularity, band_idx, artist_id, results,
                   output_file, trace, outcomes, collected, run_no, first_profile,
                   set1, set2, ret>>

(* lines 110-113: the next band is looked up; no match or a failed search
   goes straight on to the band after it *)
Resolve ==
    /\ pc = "loop"
    /\ band_idx <= Len(candidates)
    /\ trace' = Append(trace, Call("search", band_idx))
    /\ \E res \in SearchResponses :
          /\ artist_id' = get_artist_id(res)
          /\ IF get_artist_id(res) = None
             THEN /\ outcomes' = Append(outcomes,
                         IF res = Raise THEN "search_failed" ELSE "no_match")
                  /\ band_idx' = band_idx + 1
                  /\ UNCHANGED pc
             ELSE /\ pc' = "fetch"
                  /\ UNCHANGED <<outcomes, band_idx>>
    /\ UNCHANGED <<listener_history, error, top_tracks, top_artists_ids,
                   top_artists_info, user_genres, user_popularity, candidates,
                   results, output_file, collected, run_no, first_profile,
                   set1, set2, ret>>

(* no try/except around the body: the exception ends the run *)
FetchAndScore_uncaught ==
    /\ pc = "fetch"
    /\ trace' = Append(trace, Call("artist", band_idx))
    /\ \/ /\ results' = Append(results,
                score_band(candidates[band_idx], Catalog[artist_id],
                           user_genres, user_popularity))
          /\ outcomes' = Append(outcomes, "scored")
          /\ pc' = "sleep"
          /\ UNCHANGED error
       \/ /\ pc' = "raised"
          /\ error' = TRANSPORT_ERROR
          /\ UNCHANGED <<results, outcomes>>
    /\ UNCHANGED <<listener_history, top_tracks, top_artists_ids,
                   top_artists_info, user_genres, user_popularity, candidates,
                   band_idx, artist_id, output_file, collected, run_no,
                   first_profile, set1, set2, ret>>

(* lines 116-139: the artist is fetched and scored; an exception, raised by
   sp.artist or by the computation on what it returned, is printed and the
   band is left out (the except clause does the same for both) *)
FetchAndScore ==
    /\ pc = "fetch"
    /\ trace' = Append(trace, Call("artist", band_idx))
    /\ \/ /\ results' = Append(results,
                score_band(candidates[band_idx], Catalog[artist_id],
                           user_genres, user_popularity))
          /\ outcomes' = Append(outcomes, "scored")
       \/ /\ outcomes' = Append(outcomes, "exception")
          /\ UNCHANGED results
    /\ pc' = "sleep"
    /\ UNCHANGED <<listener_history, error, top_tracks, top_artists_ids,
                   top_artists_info, user_genres, user_popularity, candidates,
                   band_idx, artist_id, output_file, collected, run_no,
                   first_profile, set1, set2, ret>>

(* line 142: time.sleep(0.1), then the next band *)
Sleep ==
    /\ pc = "sleep"
    /\ trace' = Append(trace, Call("sleep", band_idx))
    /\ band_idx' = band_idx + 1
    /\ pc' = "loop"
    /\ UNCHANGED <<listener_history, error, top_tracks, top_artists_ids,
                   top_artists_info, user_genres, user_popularity, candidates,
                   artist_id, results, output_file, outcomes, collected, run_no,
                   first_profile, set1, set2, ret>>

(* no check of the empty list: it is sorted and saved like any other *)
Present_unchecked ==
    /\ pc = "loop"
    /\ band_idx > Len(candidates)
    /\ collected' = results
    /\ results' = results_sort(results)
    /\ pc' = "save"
    /\ UNCHANGED <<listener_history, error, top_tracks, top_artists_ids,
                   top_artists_info, user_genres, user_popularity, candidates,
                   band_idx, artist_id, output_file, trace, outcomes, run_no,
                   first_profile, set1, set2, ret>>

(* lines 147-151, once the loop of line 110 has run out of bands *)
Present ==
    /\ pc = "loop"
    /\ band_idx > Len(candidates)
    /\ collected' = results
    /\ IF results = <<>>
       THEN /\ pc' = "exit"
            /\ error' = NO_BANDS
            /\ UNCHANGED results
       ELSE /\ results' = results_sort(results)
            /\ pc' = "save"
            /\ UNCHANGED error
    /\ UNCHANGED <<listener_history, top_tracks, top_artists_ids,
                   top_artists_info, user_genres, user_popularity, candidates,
                   band_idx, artist_id, output_file, trace, outcomes, run_no,
                   first_profile, set1, set2, ret>>

(* lines 163-165: json.dump(results, f) *)
Save ==
    /\ pc = "save"
    /\ output_file' = [written |-> TRUE, content |-> results]
    /\ pc' = "done"
    /\ UNCHANGED <<listener_history, error, top_tracks, top_artists_ids,
                   top_artists_info, user_genres, user_popularity, candidates,
                   band_idx, artist_id, results, trace, outcomes, collected,
                   run_no, first_profile, set1, set2, ret>>

Next ==
    \/ FetchTopTracks
    \/ CollectTopArtists
    \/ FetchTopArtist
    \/ BuildProfile
    \/ LoadCandidates
    \/ Resolve
    \/ FetchAndScore
    \/ Sleep
    \/ Present
    \/ Save

Spec == Init /\ [][Next]_vars

-----------------------------------------------------------------------------
(* The script run a second time on the same account and the same catalog *)

Profile ==
    [artists |-> Range(SubSeq(top_artists_ids, 1, Min(Len(top_artists_ids), ARTIST_CAP))),
     genres |-> DOMAIN user_genres,
     popularity |-> user_popularity]

Rerun ==
    /\ pc = "load"
    /\ run_no = 1
    /\ run_no' = 2
    /\ first_profile' = Profile
    /\ pc' = "top_tracks"
    /\ top_tracks' = <<>>
    /\ top_artists_ids' = <<>>
    /\ top_artists_info' = <<>>
    /\ user_genres' = <<>>
    /\ user_popularity' = <<0, 1>>
    /\ UNCHANGED <<listener_history, error, candidates, band_idx, artist_id,
                   results, output_file, trace, outcomes, collected,
                   set1, set2, ret>>

NextRerun ==
    \/ FetchTopTracks
    \/ CollectTopArtists
    \/ FetchTopArtist
    \/ BuildProfile
    \/ Rerun

SpecRerun == Init /\ [][NextRerun]_vars

-----------------------------------------------------------------------------
(* jaccard_similarity called on its own *)

GenreNames == <<"rock", "pop", "jazz">> \o WideGenres

GenreUniverse == {GenreNames[k] : k \in 1..MaxGenres}

InitJaccard ==
    /\ set1 \in SUBSET GenreUniverse
    /\ set2 \in SUBSET GenreUniverse
    /\ ret = <<0, 1>>
    /\ pc = "call"
    /\ listener_history = <<>>
    /\ error = ""
    /\ top_tracks = <<>>
    /\ top_artists_ids = <<>>
    /\ top_artists_info = <<>>
    /\ user_genres = <<>>
    /\ user_popularity = <<0, 1>>
    /\ candidates = <<>>
    /\ band_idx = 1
    /\ artist_id = None
    /\ results = <<>>
    /\ output_file = NotWritten
    /\ trace = <<>>
    /\ outcomes = <<>>
    /\ collected = <<>>
    /\ run_no = 1
    /\ first_profile = NoProfile

CallJaccard ==
    /\ pc = "call"
    /\ ret' = jaccard_similarity(set1, set2)
    /\ pc' = "returned"
    /\ UNCHANGED <<listener_history, error, top_tracks, top_artists_ids,
                   top_artists_info, user_genres, user_popularity, candidates,
                   band_idx, artist_id, results, output_file, trace, outcomes,
                   collected, run_no, first_profile, set1, set2>>

NextJaccard == CallJaccard

SpecJaccard == InitJaccard /\ [][NextJaccard]_vars

-----------------------------------------------------------------------------
(* Properties *)

LoopOver == pc \in {"save", "done"} \/ (pc = "exit" /\ error = NO_BANDS)

(* the results in the order the loop appended them *)
Appended == IF LoopOver THEN collected ELSE results

Names(rs) == [k \in DOMAIN rs |-> rs[k].name]

(* the names of the first n candidates whose outcome was "scored", in order *)
RECURSIVE ScoredNames(_)
ScoredNames(n) ==
    IF n = 0 THEN <<>>
    ELSE IF outcomes[n] = "scored" THEN Append(ScoredNames(n - 1), candidates[n])
         ELSE ScoredNames(n - 1)

CountIn(rs, r) == Cardinality({k \in DOMAIN rs : rs[k] = r})

SameBag(a, b) ==
    /\ Len(a) = Len(b)
    /\ \A r \in Range(a) \cup Range(b) : CountIn(a, r) = CountIn(b, r)

IsLookup(c) == c.op \in {"search", "artist"}

JustScored == pc = "sleep" /\ outcomes[Len(outcomes)] = "scored"

(* C1: the loop visits every candidate in order and never ends the run with
   an exception, whatever happens to a candidate (no match, failed search,
   exception of the fetch or of the computation, success); the appended
   results are exactly the candidates that were scored, by name and in input
   order, and when the loop is over every candidate has been visited. *)
C1_LoopCollectsTheScoredCandidates ==
    /\ pc = "raised" => \A k \in DOMAIN trace : trace[k].band = 0
    /\ Len(outcomes) <= Len(candidates)
    /\ pc = "loop" => Len(outcomes) = band_idx - 1
    /\ pc \in {"fetch", "sleep"} => band_idx <= Len(candidates)
    /\ pc = "fetch" => Len(outcomes) = band_idx - 1
    /\ pc = "sleep" => Len(outcomes) = band_idx
    /\ Names(Appended) = ScoredNames(Len(outcomes))
    /\ LoopOver => Len(outcomes) = Len(candidates)

C1_Witness ==
    /\ pc = "done"
    /\ outcomes = <<"no_match", "scored", "exception">>
    /\ candidates[2] # candidates[1]
    /\ Names(results) = <<candidates[2]>>

(* C2: when the loop ends with no result the run exits with "No bands could
   be analyzed", nothing is ranked and no file is written; the file is
   written exactly in the runs that produced a result, and then it holds
   every one of them. *)
C2_OutputIffSomeResult ==
    /\ (LoopOver /\ collected = <<>>) =>
          pc = "exit" /\ error = NO_BANDS /\ results = <<>> /\ output_file = NotWritten
    /\ (LoopOver /\ collected # <<>>) => pc \in {"save", "done"}
    /\ pc \in {"exit", "raised"} => results = <<>> /\ output_file = NotWritten
    /\ output_file.written <=> pc = "done"
    /\ pc = "done" => collected # <<>> /\ SameBag(output_file.content, collected)

C2_Witness ==
    /\ pc = "exit"
    /\ error = NO_BANDS
    /\ Len(candidates) = MaxLines
    /\ outcomes = <<"search_failed", "exception", "no_match">>
    /\ output_file = NotWritten

(* C3: the ranked results are a permutation of the appended ones, their
   scores never increase along the sequence, results with equal scores are in
   the order in which they were appended (the order of their candidates), and
   ranking the ranked sequence again changes nothing. *)
C3_RankingIsStableDescending ==
    pc \in {"save", "done"} =>
        /\ SameBag(results, collected)
        /\ \A k \in 1..(Len(results) - 1) :
              FracLE(results[k + 1].similarity, results[k].similarity)
        /\ \A r \in Range(collected) :
              LET Tied(x) == x.similarity = r.similarity
              IN  SelectSeq(results, Tied) = SelectSeq(collected, Tied)
        /\ results_sort(results) = results

C3_Witness ==
    /\ pc = "done"
    /\ Len(results) = 3
    /\ results # collected
    /\ results[1].similarity = results[2].similarity
    /\ results[1].name # results[2].name
    /\ results[3].similarity # results[2].similarity

(* C4: no failure of a catalog call (top tracks, listener artist, search,
   candidate artist) leaves the run as a raw transport error. *)
C4_NoTransportErrorEscapes == ~(pc = "raised" /\ error = TRANSPORT_ERROR)

(* C5: between the catalog calls made for one candidate and the first call
   made for the next candidate there is a sleep, whatever happened to the
   earlier candidate. *)
C5_PacedBetweenCandidates ==
    \A k \in 1..(Len(trace) - 1) :
        ~ /\ IsLookup(trace[k])
          /\ trace[k].band >= 1
          /\ IsLookup(trace[k + 1])
          /\ trace[k + 1].band # trace[k].band

(* C6: with the same top tracks and the same catalog answers, a second run
   builds the profile the first run built: the same artists, the same genre
   set, the same mean popularity. *)
C6_SameProfileInEveryRun == (run_no = 2 /\ pc = "load") => Profile = first_profile

(* C7: jaccard_similarity(A, B) is |A n B| / |A u B| when both sets are
   non-empty and 0 when one is empty; it lies in [0,1], and it is 1 for two
   equal non-empty sets. *)
C7_JaccardIsIntersectionOverUnion ==
    pc = "returned" =>
        /\ ret[2] > 0
        /\ (set1 # {} /\ set2 # {}) =>
              ret[1] * Cardinality(set1 \cup set2) = Cardinality(set1 \cap set2) * ret[2]
        /\ (set1 = {} \/ set2 = {}) => ret[1] = 0
        /\ 0 <= ret[1] /\ ret[1] <= ret[2]
        /\ (set1 = set2 /\ set1 # {}) => ret[1] = ret[2]

C7_Witness ==
    /\ pc = "returned"
    /\ set1 \cap set2 # {}
    /\ set1 \ set2 # {}
    /\ set2 \ set1 # {}
    /\ ret[1] > 0
    /\ ret[1] < ret[2]

(* C8: the score of a result is 0.7 * Jaccard(candidate genres, listener
   genres) + 0.3 * (1 - |candidate popularity - listener mean| / 100), with
   popularity 0 for an artist that has no popularity; it lies in [0,1]; and
   listener {rock, pop} at 60 with candidate {rock, jazz} at 60 gives
   0.7 * 1/3 + 0.3 = 8/15. *)
C8_ScoreIsTheWeightedBlend ==
    /\ \A k \in DOMAIN results :
          /\ results[k].similarity[2] > 0
          /\ 0 <= results[k].similarity[1]
          /\ results[k].similarity[1] <= results[k].similarity[2]
    /\ JustScored =>
          LET info == Catalog[artist_id]
              sim == results[Len(results)].similarity
              A == IF "genres" \in DOMAIN info THEN Range(info.genres) ELSE {}
              B == DOMAIN user_genres
              p == IF "popularity" \in DOMAIN info THEN info.popularity ELSE 0
              jn == IF A = {} \/ B = {} THEN 0 ELSE Cardinality(A \cap B)
              jd == IF A = {} \/ B = {} THEN 1 ELSE Cardinality(A \cup B)
              S == user_popularity[1]
              n == user_popularity[2]
          IN  /\ sim[1] * (10 * jd * 100 * n)
                    = sim[2] * (7 * jn * 100 * n + 3 * jd * (100 * n - Abs(p * n - S)))
              /\ (A = {"rock", "jazz"} /\ B = {"rock", "pop"} /\ p = 60 /\ S = 60 * n)
                    => sim = <<8, 15>>

C8_Witness ==
    /\ JustScored
    /\ DOMAIN user_genres = {"rock", "pop"}
    /\ user_popularity = <<60, 1>>
    /\ artist_id = "a2"
    /\ results[Len(results)].similarity = <<8, 15>>

(* C9: an empty top-track answer ends the run with "No top tracks found":
   no artist was fetched, no candidate was read, resolved or scored, no file
   was written, and nothing happens afterwards. *)
C9_EmptyHistoryIsTerminal ==
    /\ [](  (listener_history = <<>> /\ pc \notin {"top_tracks", "raised"}) =>
               /\ pc = "exit"
               /\ error = NO_TOP_TRACKS
               /\ trace = <<Call("top_tracks", 0)>>
               /\ top_artists_ids = <<>>
               /\ top_artists_info = <<>>
               /\ candidates = <<>>
               /\ outcomes = <<>>
               /\ results = <<>>
               /\ output_file = NotWritten  )
    /\ [][error = NO_TOP_TRACKS => (vars' = vars)]_vars

C9_Witness ==
    /\ pc = "exit"
    /\ error = NO_TOP_TRACKS
    /\ top_tracks = <<>>
    /\ trace = <<Call("top_tracks", 0)>>

(* C10: the score reads the listener profile only through its genre names and
   its mean popularity: a profile with the same genres and the same mean
   popularity and other weights gives the same entry; and no step of the
   scoring loop changes the profile. *)
AltWeights == {<<1, 1>>, <<1, 3>>}

C10_ScoreIgnoresGenreWeights ==
    /\ [](  JustScored =>
               \A w \in AltWeights :
                  score_band(candidates[band_idx], Catalog[artist_id],
                             [g \in DOMAIN user_genres |-> w], user_popularity)
                     = results[Len(results)]  )
    /\ [][(pc \in {"loop", "fetch", "sleep"}) =>
             (user_genres' = user_genres /\ user_popularity' = user_popularity)]_vars

C10_Witness ==
    /\ JustScored
    /\ \E g, h \in DOMAIN user_genres : user_genres[g] # user_genres[h]
    /\ Range(results[Len(results)].genres) \cap DOMAIN user_genres # {}

====
